---------------------------- MODULE Spec2Model ----------------------------
(***************************************************************************)
(* A model of sea_fires_around_me: the Real-Time 911 page parser           *)
(* (realtime.py, RealTimeParser), the incident entity (incident.py), the   *)
(* geocoder adapter (geocoder.py) and the reconciliation pass              *)
(* (realtime.py, RealTime.update).                                         *)
(*                                                                         *)
(* Two specifications share the variables:                                 *)
(*   Spec        run.py's loop: one action per RealTime.update call (the   *)
(*               rows parsed from the two pages and the geocoding service  *)
(*               are its inputs) and one per sleep;                        *)
(*   SpecParser  one action per RealTimeParser callback (feed, start tag,  *)
(*               end tag, data), as html.parser calls them in document     *)
(*               order.                                                    *)
(* Strings that the code takes apart (timestamps, unit lists, element ids) *)
(* are sequences of one-character strings.  Floating point is not          *)
(* modelled: coordinates are integers, the Haversine distance and the      *)
(* elapsed minutes are left out of the events.                             *)
(***************************************************************************)
EXTENDS Integers, Sequences, FiniteSets, TLC

VARIABLES
    incidents,  \* RealTime._incidents: the dict, as a sequence in insertion order
    origin,     \* RealTime._origin
    events,     \* what the last update() call printed or asked, in order
    crashed,    \* the exception that ended the process, or "none"
    pc,         \* run.py's loop: "poll" before rt.update(), "sleep" after it
    pages,      \* the rows of today's and yesterday's page at the last poll
    quiet,      \* the pages have not changed since the last poll
    seen,       \* history: per tracked id, the unit pieces its rows have carried
    life,       \* history: per id, its last two Opened / Resolved events
    next_td,    \* RealTimeParser._next_td
    cache,      \* RealTimeParser._cache
    rows,       \* RealTimeParser._rows
    perr,       \* the exception a parser callback raised, or "none"
    doc         \* history: what the document being fed has shown so far

rvars == <<incidents, origin, events, crashed, pc, pages, quiet, seen, life>>
pvars == <<next_td, cache, rows, perr, doc>>
vars == <<incidents, origin, events, crashed, pc, pages, quiet, seen, life,
          next_td, cache, rows, perr, doc>>

-----------------------------------------------------------------------------
(* Sequences *)

RECURSIVE SeqToSet(_)
SeqToSet(s) == IF s = <<>> THEN {} ELSE {Head(s)} \cup SeqToSet(Tail(s))

Last(s) == s[Len(s)]

\* F(v), with v computed once.
With(v, F(_)) == CHOOSE y \in {F(x) : x \in {v}} : TRUE

NoDup(s) == \A i, j \in 1..Len(s) : i # j => s[i] # s[j]

-----------------------------------------------------------------------------
(* datetime.strptime(time, "%m/%d/%Y %I:%M:%S %p")                          *)

DigitChars == <<"0", "1", "2", "3", "4", "5", "6", "7", "8", "9">>

IsDigit(c) == \E i \in 1..10 : DigitChars[i] = c

DigitVal(c) == (CHOOSE i \in 1..10 : DigitChars[i] = c) - 1

\* The directives of the format, in order; a " " stands for \s+.
TimeFormat == <<"m", "/", "d", "/", "Y", " ", "I", ":", "M", ":", "S", " ", "p">>

\* How many digits a numeric directive takes at most, and its range (%S
\* matches up to 61, and datetime() then refuses a second above 59).
MaxDigits(d) == IF d = "Y" THEN 4 ELSE 2
MinDigits(d) == IF d = "Y" THEN 4 ELSE 1
LowVal(d) == IF d \in {"m", "d", "I"} THEN 1 ELSE 0
HighVal(d) == CASE d = "m" -> 12 [] d = "d" -> 31 [] d = "Y" -> 9999
                [] d = "I" -> 12 [] d = "M" -> 59 [] d = "S" -> 59

\* The number of digits at s[i..], at most n.
RECURSIVE DigitRun(_, _, _)
DigitRun(s, i, n) ==
    IF n = 0 \/ i > Len(s) \/ ~IsDigit(s[i]) THEN 0
    ELSE 1 + DigitRun(s, i + 1, n - 1)

RECURSIVE NumVal(_, _, _)
NumVal(s, i, n) ==
    IF n = 0 THEN 0 ELSE 10 * NumVal(s, i, n - 1) + DigitVal(s[i + n - 1])

RECURSIVE SpaceRun(_, _)
SpaceRun(s, i) ==
    IF i > Len(s) \/ s[i] # " " THEN 0 ELSE 1 + SpaceRun(s, i + 1)

DaysIn(month, year) ==
    IF month \in {4, 6, 9, 11} THEN 30
    ELSE IF month # 2 THEN 31
    ELSE IF (year % 4 = 0 /\ year % 100 # 0) \/ year % 400 = 0 THEN 29
    ELSE 28

NoTime == [ok |-> FALSE]

\* Matches directive k of the format at s[i..]; acc holds the fields read.
RECURSIVE MatchTime(_, _, _, _)
MatchTime(s, i0, k, acc) ==
    With(i0, LAMBDA i :
    IF k > Len(TimeFormat)
    THEN IF i = Len(s) + 1 THEN acc ELSE NoTime  \* unconverted data remains
    ELSE LET d == TimeFormat[k] IN
         IF d \in {"/", ":"}
         THEN IF i <= Len(s) /\ s[i] = d
              THEN MatchTime(s, i + 1, k + 1, acc) ELSE NoTime
         ELSE IF d = " "
         THEN With(SpaceRun(s, i), LAMBDA n :
                IF n >= 1 THEN MatchTime(s, i + n, k + 1, acc) ELSE NoTime)
         ELSE IF d = "p"
         THEN IF i + 1 <= Len(s) /\ s[i] \in {"A", "P", "a", "p"}
                 /\ s[i + 1] \in {"M", "m"}
              THEN With([acc EXCEPT !.p = IF s[i] \in {"P", "p"}
                                          THEN "PM" ELSE "AM"],
                        LAMBDA a : MatchTime(s, i + 2, k + 1, a))
              ELSE NoTime
         ELSE With(DigitRun(s, i, MaxDigits(d)), LAMBDA n :
              With(NumVal(s, i, n), LAMBDA v :
                IF n >= MinDigits(d) /\ v >= LowVal(d) /\ v <= HighVal(d)
                THEN With([acc EXCEPT ![d] = v],
                          LAMBDA a : MatchTime(s, i + n, k + 1, a))
                ELSE NoTime)))

\* The datetime strptime builds, or NoTime where it raises ValueError.
Strptime(s) ==
    With(MatchTime(s, 1, 1,
                   [ok |-> TRUE, m |-> 0, d |-> 0, Y |-> 0, I |-> 0,
                    M |-> 0, S |-> 0, p |-> "AM"]),
         LAMBDA f :
           IF ~f.ok THEN NoTime
           ELSE IF f.d > DaysIn(f.m, f.Y) THEN NoTime
           ELSE [ok |-> TRUE, year |-> f.Y, month |-> f.m, day |-> f.d,
                 hour |-> (f.I % 12) + (IF f.p = "PM" THEN 12 ELSE 0),
                 minute |-> f.M, second |-> f.S])

\* The timestamp texts the pages carry.
\* "12/25/2022 01:15:30 PM", "1/2/2023 12:05:09 AM", "2022-12-25 13:15:30"
TimePM == <<"1", "2", "/", "2", "5", "/", "2", "0", "2", "2", " ", "0", "1", ":", "1", "5", ":", "3", "0", " ", "P", "M">>
TimeAM == <<"1", "/", "2", "/", "2", "0", "2", "3", " ", "1", "2", ":", "0", "5", ":", "0", "9", " ", "A", "M">>
TimeIso == <<"2", "0", "2", "2", "-", "1", "2", "-", "2", "5", " ", "1", "3", ":", "1", "5", ":", "3", "0">>
Times == {TimePM, TimeIso}

-----------------------------------------------------------------------------
(* str.split(" ") *)

RECURSIVE SplitAcc(_, _, _)
SplitAcc(s, cur, out) ==
    IF s = <<>> THEN Append(out, cur)
    ELSE IF Head(s) = " " THEN SplitAcc(Tail(s), <<>>, Append(out, cur))
    ELSE SplitAcc(Tail(s), Append(cur, Head(s)), out)

\* The pieces of s between single spaces, empty pieces included.
Split(s) == SplitAcc(s, <<>>, <<>>)

-----------------------------------------------------------------------------
(* incident.py *)

DIRECTIONALS == <<"southwest", "northwest", "southeast", "northeast">>

\* Incident.__init__, where strptime has made the datetime time.
Incident(id, time, addr, loc, inc_type) ==
    [id |-> id, time |-> time, addr |-> addr,
     lat |-> loc[1], lon |-> loc[2], type |-> inc_type, units |-> <<>>]

\* get_direction_to comparing with >= instead of >.
get_direction_to_inclusive(inc, org) ==
    LET is_north == inc.lat >= org[1]
        is_east == inc.lon >= org[2]
        idx == (IF is_east THEN 2 ELSE 0) + (IF is_north THEN 1 ELSE 0)
    IN  DIRECTIONALS[idx + 1]

\* Incident.get_direction_to
get_direction_to(inc, org) ==
    LET is_north == inc.lat > org[1]
        is_east == inc.lon > org[2]
        idx == (IF is_east THEN 2 ELSE 0) + (IF is_north THEN 1 ELSE 0)
    IN  DIRECTIONALS[idx + 1]

\* update_type that keeps the type the incident was created with.
update_type_keeps(inc, new_type) == [inc |-> inc, evs |-> <<>>]

\* Incident.update_type: the incident and what it printed.
update_type(inc, new_type) ==
    IF inc.type # new_type
    THEN [inc |-> [inc EXCEPT !.type = new_type],
          evs |-> <<[type |-> "TypeChanged", id |-> inc.id, addr |-> inc.addr,
                     old |-> inc.type, new |-> new_type]>>]
    ELSE [inc |-> inc, evs |-> <<>>]

\* add_unit without its membership test.
add_unit_always(inc, unit) ==
    [inc |-> [inc EXCEPT !.units = Append(@, unit)],
     evs |-> <<[type |-> "UnitAssigned", id |-> inc.id, unit |-> unit,
                addr |-> inc.addr]>>]

\* Incident.add_unit: the incident and what it printed.
add_unit(inc, unit) ==
    IF unit \notin SeqToSet(inc.units)
    THEN [inc |-> [inc EXCEPT !.units = Append(@, unit)],
          evs |-> <<[type |-> "UnitAssigned", id |-> inc.id, unit |-> unit,
                     addr |-> inc.addr]>>]
    ELSE [inc |-> inc, evs |-> <<>>]

-----------------------------------------------------------------------------
(* geocoder.py *)

\* The first location of the response in Seattle, searched in order.
RECURSIVE FirstSeattle(_)
FirstSeattle(locs) ==
    IF locs = <<>> THEN <<>>
    ELSE IF Head(locs).adminArea5 = "Seattle" THEN <<Head(locs).latLng>>
    ELSE FirstSeattle(Tail(locs))

RECURSIVE Flatten(_)
Flatten(results) ==
    IF results = <<>> THEN <<>>
    ELSE Head(results).locations \o Flatten(Tail(results))

\* Geocoder.geocode, given the service's response to the request.
geocode(resp) ==
    IF resp.status_code # 200 THEN <<0, 0>>
    ELSE IF Len(resp.results) < 1 THEN <<0, 0>>
    ELSE LET hit == FirstSeattle(Flatten(resp.results)) IN
         IF hit # <<>> THEN hit[1] ELSE <<0, 0>>

\* Python's int 0, the level of a five-field row (texts are sequences of
\* characters; this is none).
IntZero == <<"int 0">>

\* realtime.py, IncidentRow.__init__
IncidentRow(dt, id, lvl, units, loc, typ) ==
    [datetime |-> dt, id |-> id, level |-> lvl, units |-> units,
     loc |-> loc, typ |-> typ]

-----------------------------------------------------------------------------
(* realtime.py, RealTime *)

\* An element of the list update() walks is an IncidentRow or, where
\* _get_two_day_rows appended a list, that list.
IsRow(e) == "id" \in DOMAIN e

HasKey(incs, id) == \E i \in 1..Len(incs) : incs[i].id = id

Keys(incs) == {incs[i].id : i \in 1..Len(incs)}

IdxOf(incs, id) == CHOOSE i \in 1..Len(incs) : incs[i].id = id

Get(incs, id) == incs[IdxOf(incs, id)]

\* del d[id]: the other entries keep their order.
RECURSIVE Del(_, _)
Del(incs, id) ==
    IF incs = <<>> THEN <<>>
    ELSE IF Head(incs).id = id THEN Tail(incs)
    ELSE <<Head(incs)>> \o Del(Tail(incs), id)

RECURSIVE RemoveRows(_, _, _)
RECURSIVE RemoveRowsFirstOnly(_, _, _)

\* RealTime._get_two_day_rows, given the rows parsed from the two pages.
GetTwoDayRows(today, yesterday) ==
    IF Len(yesterday) > 0 THEN Append(today, [items |-> yesterday]) ELSE today

\* RealTime._add_incident; svc maps an address to the service's response.
\* st is [incs, evs, err]: the dict, the output so far, the exception raised.
AddIncident(st, row, svc, org) ==
    With(geocode(svc[row.loc]), LAMBDA latlon :
    With(Append(st.evs, [type |-> "Geocode", addr |-> row.loc]), LAMBDA asked :
    With(Strptime(row.datetime), LAMBDA time :
      IF ~time.ok
      THEN [st EXCEPT !.evs = asked, !.err = "ValueError"]
      ELSE With(Incident(row.id, time, row.loc, latlon, row.typ), LAMBDA inc :
             [st EXCEPT
                !.evs = Append(asked,
                          [type |-> "Opened", id |-> inc.id,
                           typ |-> inc.type, addr |-> inc.addr,
                           dire |-> get_direction_to(inc, org)]),
                !.incs = Append(@, inc)]))))

RECURSIVE AddRows(_, _, _, _)
RECURSIVE AddRowsAlways(_, _, _, _)

\* The first loop without its test that the id is not a key yet.
AddRowsAlways(st, rs, svc, org) ==
    IF rs = <<>> \/ st.err # "none" THEN st
    ELSE IF ~IsRow(Head(rs)) THEN [st EXCEPT !.err = "AttributeError"]
    ELSE With(AddIncident(st, Head(rs), svc, org),
              LAMBDA n : AddRowsAlways(n, Tail(rs), svc, org))

\* update(), "Add new rows"
AddRows(st, rs, svc, org) ==
    IF rs = <<>> \/ st.err # "none" THEN st
    ELSE IF ~IsRow(Head(rs)) THEN [st EXCEPT !.err = "AttributeError"]
    ELSE IF ~HasKey(st.incs, Head(rs).id)
    THEN With(AddIncident(st, Head(rs), svc, org),
              LAMBDA n : AddRows(n, Tail(rs), svc, org))
    ELSE AddRows(st, Tail(rs), svc, org)

\* The loop of _update_incident over the pieces of the row's units.
RECURSIVE AddUnits(_, _)
AddUnits(r, units) ==
    IF units = <<>> THEN r
    ELSE With(add_unit(r.inc, Head(units)), LAMBDA n :
         With([inc |-> n.inc, evs |-> r.evs \o n.evs], LAMBDA m :
           AddUnits(m, Tail(units))))

\* _update_incident that also takes the row's location as the address.
UpdateIncidentRelocates(st, row) ==
    With(IdxOf(st.incs, row.id), LAMBDA i :
    With(AddUnits([inc |-> st.incs[i], evs |-> <<>>], Split(row.units)),
         LAMBDA u :
    With(update_type(u.inc, row.typ), LAMBDA t :
      [st EXCEPT !.incs[i] = [t.inc EXCEPT !.addr = row.loc],
                 !.evs = @ \o u.evs \o t.evs])))

\* RealTime._update_incident
UpdateIncident(st, row) ==
    With(IdxOf(st.incs, row.id), LAMBDA i :
    With(AddUnits([inc |-> st.incs[i], evs |-> <<>>], Split(row.units)),
         LAMBDA u :
    With(update_type(u.inc, row.typ), LAMBDA t :
      [st EXCEPT !.incs[i] = t.inc, !.evs = @ \o u.evs \o t.evs])))

\* update(), "Update existing rows"
RECURSIVE UpdateRows(_, _)
UpdateRows(st, rs) ==
    IF rs = <<>> THEN st
    ELSE IF HasKey(st.incs, Head(rs).id)
    THEN With(UpdateIncident(st, Head(rs)), LAMBDA n : UpdateRows(n, Tail(rs)))
    ELSE UpdateRows(st, Tail(rs))

\* _remove_incident without its del.
RemoveIncidentKeeps(st, inc_id) ==
    With(Get(st.incs, inc_id), LAMBDA inc :
      [st EXCEPT !.evs = Append(@, [type |-> "Resolved", id |-> inc.id,
                                    addr |-> inc.addr])])

\* RealTime._remove_incident
RemoveIncident(st, inc_id) ==
    With(Get(st.incs, inc_id), LAMBDA inc :
      [st EXCEPT !.evs = Append(@, [type |-> "Resolved", id |-> inc.id,
                                    addr |-> inc.addr]),
                 !.incs = Del(@, inc_id)])

\* update() without its third loop.
RemoveRowsSkipped(st, keys, active_ids) == st

\* The third loop removing only the first key that is not active.
RemoveRowsFirstOnly(st, keys, active_ids) ==
    IF keys = <<>> THEN st
    ELSE IF Head(keys) \notin active_ids THEN RemoveIncident(st, Head(keys))
    ELSE RemoveRowsFirstOnly(st, Tail(keys), active_ids)

\* update(), "Remove deleted rows": keys is list(self._incidents).
RemoveRows(st, keys, active_ids) ==
    IF keys = <<>> THEN st
    ELSE IF Head(keys) \notin active_ids
    THEN With(RemoveIncident(st, Head(keys)),
              LAMBDA n : RemoveRows(n, Tail(keys), active_ids))
    ELSE RemoveRows(st, Tail(keys), active_ids)

KeyList(incs) == [i \in 1..Len(incs) |-> incs[i].id]

\* update() with its second loop run before its first.
ReconcileUpdateFirst(incs, rs, svc, org) ==
    With(UpdateRows([incs |-> incs, evs |-> <<>>, err |-> "none"],
                    SelectSeq(rs, IsRow)), LAMBDA u :
    With(AddRows(u, rs, svc, org), LAMBDA a :
      IF a.err # "none" THEN a
      ELSE With({rs[i].id : i \in 1..Len(rs)}, LAMBDA active_ids :
             RemoveRows(a, KeyList(a.incs), active_ids))))

\* RealTime.update on the list rs, from the dict incs.
Reconcile(incs, rs, svc, org) ==
    With(AddRows([incs |-> incs, evs |-> <<>>, err |-> "none"], rs, svc, org),
         LAMBDA a :
      IF a.err # "none" THEN a
      ELSE With(UpdateRows(a, rs), LAMBDA u :
           With({rs[i].id : i \in 1..Len(rs)}, LAMBDA active_ids :
             RemoveRows(u, KeyList(u.incs), active_ids))))

-----------------------------------------------------------------------------
(* realtime.py, RealTimeParser *)

\* IncidentColumn
INVALID == 0
DATETIME == 1
ID == 2
LEVEL == 3
UNITS == 4
LOCATION == 5
TYPE == 6

\* s.startswith(prefix)
StartsWith(s, prefix) ==
    Len(s) >= Len(prefix) /\ SubSeq(s, 1, Len(prefix)) = prefix

RowPrefix == <<"r", "o", "w", "_">>

Active == <<"a", "c", "t", "i", "v", "e">>

Whitespace == {" ", "\n", "\t"}

\* not data.strip()
IsBlank(data) == \A i \in 1..Len(data) : data[i] \in Whitespace

\* RealTimeParser._handle_row: _next_td after the loop over attrs.
RECURSIVE handle_row(_, _)
handle_row(attrs, ntd) ==
    IF attrs = <<>> THEN ntd
    ELSE LET attr == Head(attrs) IN
         IF attr[1] = "id" /\ StartsWith(attr[2], RowPrefix)
         THEN handle_row(Tail(attrs), DATETIME)
         ELSE handle_row(Tail(attrs), ntd)

\* RealTimeParser._handle_cell: _next_td after the loop over attrs.
RECURSIVE handle_cell(_, _)
handle_cell(attrs, ntd) ==
    IF attrs = <<>> THEN ntd
    ELSE LET attr == Head(attrs) IN
         IF attr[1] = "class" /\ attr[2] # Active
         THEN handle_cell(Tail(attrs), INVALID)
         ELSE handle_cell(Tail(attrs), ntd)

\* RealTimeParser.handle_starttag: the parser's [ntd, cache, rows, err] after it.
handle_starttag(p, tag, attrs) ==
    IF tag = "tr" THEN [p EXCEPT !.ntd = handle_row(attrs, p.ntd)]
    ELSE IF tag = "td" /\ p.ntd # INVALID
    THEN [p EXCEPT !.ntd = handle_cell(attrs, p.ntd)]
    ELSE p

\* handle_endtag without its self._cache.clear().
handle_endtag_keeps_cache(p, tag) ==
    IF tag = "tr" /\ p.ntd # INVALID
    THEN LET c == p.cache IN
         IF Len(c) < 6
         THEN IF Len(c) # 5 THEN [p EXCEPT !.err = "ValueError"]
              ELSE [p EXCEPT
                      !.rows = Append(@, IncidentRow(c[1], c[2], IntZero,
                                                     c[3], c[4], c[5])),
                      !.ntd = INVALID]
         ELSE IF Len(c) # 6 THEN [p EXCEPT !.err = "ValueError"]
              ELSE [p EXCEPT
                      !.rows = Append(@, IncidentRow(c[1], c[2], c[3],
                                                     c[4], c[5], c[6])),
                      !.ntd = INVALID]
    ELSE p

\* RealTimeParser.handle_endtag; unpacking a list of another length into
\* five or six names raises ValueError before anything is assigned.
handle_endtag(p, tag) ==
    IF tag = "tr" /\ p.ntd # INVALID
    THEN LET c == p.cache IN
         IF Len(c) < 6
         THEN IF Len(c) # 5 THEN [p EXCEPT !.err = "ValueError"]
              ELSE [p EXCEPT
                      !.rows = Append(@, IncidentRow(c[1], c[2], IntZero,
                                                     c[3], c[4], c[5])),
                      !.ntd = INVALID, !.cache = <<>>]
         ELSE IF Len(c) # 6 THEN [p EXCEPT !.err = "ValueError"]
              ELSE [p EXCEPT
                      !.rows = Append(@, IncidentRow(c[1], c[2], c[3],
                                                     c[4], c[5], c[6])),
                      !.ntd = INVALID, !.cache = <<>>]
    ELSE p

\* handle_data without its first test.
handle_data_unguarded(p, data) ==
    IF IsBlank(data) THEN p
    ELSE [p EXCEPT !.cache = Append(@, data),
                   !.ntd = IF p.ntd # TYPE THEN p.ntd + 1 ELSE p.ntd]

\* RealTimeParser.handle_data
handle_data(p, data) ==
    IF p.ntd = INVALID THEN p
    ELSE IF IsBlank(data) THEN p
    ELSE [p EXCEPT !.cache = Append(@, data),
                   !.ntd = IF p.ntd # TYPE THEN p.ntd + 1 ELSE p.ntd]

\* RealTimeParser.feed, before html.parser makes the document's callbacks.
feed(p) == [p EXCEPT !.rows = <<>>]

\* RealTimeParser.__init__
NewParser == [ntd |-> INVALID, cache |-> <<>>, rows |-> <<>>, err |-> "none"]

-----------------------------------------------------------------------------
(* The documents fed to the parser *)

\* Most documents fed, most rows opened in one, most texts after one opening.
MaxDocs == 2
MaxDocRows == 2
MaxRowTexts == 7

\* id="row_1", id="hdr", class="active", class="closed"
AttrRowId == <<"id", <<"r", "o", "w", "_", "1">>>>
AttrOtherId == <<"id", <<"h", "d", "r">>>>
AttrActive == <<"class", Active>>
AttrClosed == <<"class", <<"c", "l", "o", "s", "e", "d">>>>

TrAttrs == {<<>>, <<AttrRowId>>, <<AttrOtherId>>, <<AttrActive, AttrRowId>>}
TdAttrs == {<<>>, <<AttrActive>>, <<AttrClosed>>, <<AttrOtherId, AttrClosed>>}
Tags == {"tr", "td", "table"}

\* The text of a cell names its place: document, row opened, text after the
\* opening.
Text(d, r, t) == <<DigitChars[d + 1], DigitChars[r + 1], DigitChars[t + 1]>>

BlankData == <<"\n", " ">>

\* What a document has shown so far, read off the callbacks alone:
\*   no      the number of the document
\*   opened  how many rows it has opened (tr with a row_ id)
\*   inRow   the last of them has not been closed
\*   cur     the non-blank texts since the last opening
\*   first   the marker of the first cell since the last opening
\*   clean   so far it is made only of rows of active cells and 5 or 6 texts
\*   done    while clean, the texts of each closed row
NoDoc == [no |-> 0, opened |-> 0, inRow |-> FALSE, cur |-> <<>>,
          first |-> "none", clean |-> TRUE, done |-> <<>>]

OpensRow(attrs) ==
    \E i \in 1..Len(attrs) : attrs[i][1] = "id" /\ StartsWith(attrs[i][2], RowPrefix)

Closed(attrs) ==
    \E i \in 1..Len(attrs) : attrs[i][1] = "class" /\ attrs[i][2] # Active

DocStart(d) == [NoDoc EXCEPT !.no = d.no + 1]

DocStartTag(d, tag, attrs) ==
    IF tag = "tr" /\ OpensRow(attrs)
    THEN [d EXCEPT !.opened = @ + 1, !.inRow = TRUE, !.cur = <<>>,
                   !.first = "none", !.clean = @ /\ ~d.inRow,
                   !.done = IF d.clean /\ ~d.inRow THEN @ ELSE <<>>]
    ELSE IF tag = "td" /\ d.inRow
    THEN [d EXCEPT !.first = IF @ # "none" THEN @
                             ELSE IF Closed(attrs) THEN "closed" ELSE "active",
                   !.clean = @ /\ ~Closed(attrs),
                   !.done = IF d.clean /\ ~Closed(attrs) THEN @ ELSE <<>>]
    ELSE d

DocEndTag(d, tag) ==
    IF tag = "tr" /\ d.inRow
    THEN LET ok == d.clean /\ Len(d.cur) \in {5, 6} IN
         [d EXCEPT !.inRow = FALSE, !.clean = ok,
                   !.done = IF ok THEN Append(@, d.cur) ELSE <<>>]
    ELSE IF tag = "tr"
    THEN [d EXCEPT !.clean = FALSE, !.done = <<>>]
    ELSE d

DocData(d, data) ==
    IF IsBlank(data) THEN d
    ELSE [d EXCEPT !.cur = Append(@, data), !.clean = @ /\ d.inRow,
                   !.done = IF d.clean /\ d.inRow THEN @ ELSE <<>>]

-----------------------------------------------------------------------------
(* The inputs of update(): the rows of the two pages, the geocoding service *)

\* Most rows _get_two_day_rows reads from today's page.
MaxRows == 2

Ids == {"A", "B"}

\* "E1", "E1 E2", ""
UnitTexts == {<<"E", "1">>, <<"E", "1", " ", "E", "2">>, <<>>}

Locs == {"Pine St", "Oak Av"}

Types == {"Aid", "Fire"}

BaseRow(id) == IncidentRow(TimePM, id, IntZero, <<"E", "1">>, "Pine St", "Aid")

Differences(r, b) ==
    Cardinality({f \in {"datetime", "units", "loc", "typ"} : r[f] # b[f]})

\* The rows a page may carry: the base row of each id, and for id "A" the
\* rows that differ from it in one field.
RowKinds ==
    {r \in {IncidentRow(dt, id, IntZero, u, l, t) :
               dt \in Times, id \in Ids, u \in UnitTexts, l \in Locs, t \in Types} :
        Differences(r, BaseRow(r.id)) <= (IF r.id = "A" THEN 1 ELSE 0)}

SeqsUpTo(S, n) == UNION {[1..k -> S] : k \in 0..n}

\* Today's page: up to MaxRows active rows.
TodayRows == SeqsUpTo(RowKinds, MaxRows)

\* Yesterday's page: no active row, or one.
YesterdayRows == {<<>>, <<BaseRow("A")>>}

\* What the service answers for an address while it is up, and when it fails.
ServiceUp ==
    [l \in Locs |->
        IF l = "Pine St"
        THEN [status_code |-> 200,
              results |-> <<[locations |->
                  <<[adminArea5 |-> "Tacoma", latLng |-> <<-2, -2>>],
                    [adminArea5 |-> "Seattle", latLng |-> <<1, 1>>]>>]>>]
        ELSE [status_code |-> 200,
              results |-> <<[locations |->
                  <<[adminArea5 |-> "Seattle", latLng |-> <<-1, 2>>]>>]>>]]

ServiceDown == [l \in Locs |-> [status_code |-> 500, results |-> <<>>]]

Services == {ServiceUp, ServiceDown}

Origins == {<<0, 0>>}

-----------------------------------------------------------------------------
(* History kept for the properties *)

\* The rows of the list update() walked at the last poll.
Snapshot == GetTwoDayRows(pages.today, pages.yesterday)

NoPages == [today |-> <<>>, yesterday |-> <<>>]

\* The pieces of the units of the rows of rs with this id.
PiecesOf(rs, id) ==
    UNION {SeqToSet(Split(rs[i].units)) :
              i \in {j \in 1..Len(rs) : IsRow(rs[j]) /\ rs[j].id = id}}

\* seen after a completed cycle from incs to r.incs over rs.
SeenAfter(incs, r, rs) ==
    [id \in Ids |->
        IF id \notin Keys(r.incs) THEN {}
        ELSE (IF id \in Keys(incs) THEN seen[id] ELSE {}) \cup PiecesOf(rs, id)]

LastTwo(s) == IF Len(s) <= 2 THEN s ELSE SubSeq(s, Len(s) - 1, Len(s))

RECURSIVE LifeAfter(_, _)
LifeAfter(l, evs) ==
    IF evs = <<>> THEN l
    ELSE LET e == Head(evs) IN
         IF e.type \in {"Opened", "Resolved"}
         THEN LifeAfter([l EXCEPT ![e.id] = LastTwo(Append(@, e.type))], Tail(evs))
         ELSE LifeAfter(l, Tail(evs))

-----------------------------------------------------------------------------
(* The parser's variables *)

Parser == [ntd |-> next_td, cache |-> cache, rows |-> rows, err |-> perr]

SetParser(p) ==
    /\ next_td' = p.ntd
    /\ cache' = p.cache
    /\ rows' = p.rows
    /\ perr' = p.err

ParserInit ==
    /\ next_td = NewParser.ntd
    /\ cache = NewParser.cache
    /\ rows = NewParser.rows
    /\ perr = NewParser.err
    /\ doc = NoDoc

-----------------------------------------------------------------------------
(* Spec: the monitor *)

RvarsInit ==
    /\ incidents = <<>>
    /\ origin \in Origins
    /\ events = <<>>
    /\ crashed = "none"
    /\ pc = "poll"
    /\ pages = NoPages
    /\ quiet = FALSE
    /\ seen = [id \in Ids |-> {}]
    /\ life = [id \in Ids |-> <<>>]

\* RealTime.__init__, and run.py about to enter its loop.
Init == RvarsInit /\ ParserInit

\* RealTime.update, on the rows parsed from the two pages; an exception ends
\* the process (run.py catches nothing).
Update(today, yesterday, svc) ==
    /\ pc = "poll"
    /\ crashed = "none"
    /\ \E rs \in {GetTwoDayRows(today, yesterday)} :
         \E r \in {Reconcile(incidents, rs, svc, origin)} :
           /\ incidents' = r.incs
           /\ events' = r.evs
           /\ crashed' = r.err
           /\ seen' = IF r.err = "none" THEN SeenAfter(incidents, r, rs) ELSE seen
           /\ life' = LifeAfter(life, r.evs)
    /\ pages' = [today |-> today, yesterday |-> yesterday]
    /\ pc' = "sleep"
    /\ UNCHANGED <<origin, quiet, pvars>>

\* A poll that finds the pages changed, or the first poll.
PollChanged ==
    /\ ~quiet
    /\ \E today \in TodayRows, yesterday \in YesterdayRows, svc \in Services :
          Update(today, yesterday, svc)

\* A poll that finds the pages as they were at the last poll.
PollUnchanged ==
    /\ quiet
    /\ \E svc \in Services : Update(pages.today, pages.yesterday, svc)

\* run.py's time.sleep(20); the pages change meanwhile, or do not.  What the
\* last update() printed scrolls away.
Sleep(unchanged) ==
    /\ pc = "sleep"
    /\ crashed = "none"
    /\ pc' = "poll"
    /\ quiet' = unchanged
    /\ pages' = IF unchanged THEN pages ELSE NoPages
    /\ events' = <<>>
    /\ UNCHANGED <<incidents, origin, crashed, seen, life, pvars>>

Next ==
    \/ PollChanged
    \/ PollUnchanged
    \/ \E unchanged \in BOOLEAN : Sleep(unchanged)

Spec == Init /\ [][Next]_vars

-----------------------------------------------------------------------------
(* SpecParser: the parser, callback by callback *)

\* _get_two_day_rows feeds a page; an exception in a callback ends the process.
Feed ==
    /\ perr = "none"
    /\ doc.no < MaxDocs
    /\ SetParser(feed(Parser))
    /\ doc' = DocStart(doc)
    /\ UNCHANGED rvars

StartTag(tag, attrs) ==
    /\ perr = "none"
    /\ doc.no >= 1
    /\ (tag = "tr" /\ OpensRow(attrs)) => doc.opened < MaxDocRows
    /\ SetParser(handle_starttag(Parser, tag, attrs))
    /\ doc' = DocStartTag(doc, tag, attrs)
    /\ UNCHANGED rvars

EndTag(tag) ==
    /\ perr = "none"
    /\ doc.no >= 1
    /\ SetParser(handle_endtag(Parser, tag))
    /\ doc' = DocEndTag(doc, tag)
    /\ UNCHANGED rvars

Data(data) ==
    /\ perr = "none"
    /\ doc.no >= 1
    /\ SetParser(handle_data(Parser, data))
    /\ doc' = DocData(doc, data)
    /\ UNCHANGED rvars

NextParser ==
    \/ Feed
    \/ \E attrs \in TrAttrs : StartTag("tr", attrs)
    \/ \E attrs \in TdAttrs : StartTag("td", attrs)
    \/ StartTag("table", <<>>)
    \/ \E tag \in Tags : EndTag(tag)
    \/ Data(BlankData)
    \/ /\ Len(doc.cur) < MaxRowTexts
       /\ Data(Text(doc.no, doc.opened, Len(doc.cur) + 1))

SpecParser == Init /\ [][NextParser]_vars

-----------------------------------------------------------------------------
(* Properties.  Those of update() speak of the calls that return: a call    *)
(* that raises ends the process (C3 is the claim about such a call).        *)

\* update() has just returned.
Completed == pc = "sleep" /\ crashed = "none"

\* A step in which update() runs and returns.
UpdateReturns == pc = "poll" /\ pc' = "sleep" /\ crashed' = "none"

RowIds(rs) == {rs[i].id : i \in {j \in 1..Len(rs) : IsRow(rs[j])}}

\* The places in evs of the events of this type about this id.
EventsAt(evs, type, id) ==
    {i \in 1..Len(evs) : evs[i].type = type /\ evs[i].id = id}

IsPrefix(a, b) == Len(a) <= Len(b) /\ SubSeq(b, 1, Len(a)) = a

\* The type of the last row of rs with this id.
LastTypeOf(rs, id) ==
    rs[CHOOSE i \in 1..Len(rs) :
          /\ rs[i].id = id
          /\ \A j \in (i + 1)..Len(rs) : rs[j].id # id].typ

\* C1: after update() has returned, the keys of the tracked map are exactly
\* the ids of the rows of the snapshot it was given, each key once.
C1_KeysAreSnapshotIds ==
    Completed =>
        /\ Keys(incidents) = RowIds(Snapshot)
        /\ Len(incidents) = Cardinality(Keys(incidents))

\* "A" was tracked and is gone from the snapshot, "B" is new in it.
C1_Witness ==
    /\ Completed
    /\ Keys(incidents) = {"B"}
    /\ EventsAt(events, "Resolved", "A") # {}
    /\ EventsAt(events, "Opened", "B") # {}

\* C2: a row-closing marker for a row in progress that has captured fewer
\* than 5 texts raises nothing and emits nothing.
C2_ShortRowDropped ==
    [][(EndTag("tr") /\ next_td # INVALID /\ Len(cache) < 5)
          => (perr' = "none" /\ rows' = rows)]_vars

\* C3: a snapshot with a row whose timestamp does not parse does not abort
\* the pass: update() returns, every row whose timestamp parses is tracked,
\* and every tracked id is in the snapshot.
C3_MalformedTimestampSkipped ==
    (/\ pc = "sleep"
     /\ pages.yesterday = <<>>
     /\ \E i \in 1..Len(Snapshot) : ~Strptime(Snapshot[i].datetime).ok)
    => /\ crashed = "none"
       /\ \A i \in 1..Len(Snapshot) :
             Strptime(Snapshot[i].datetime).ok
                => Snapshot[i].id \in Keys(incidents)
       /\ Keys(incidents) \subseteq RowIds(Snapshot)

\* C4: feeding a document leaves nothing of the one before: no emitted row,
\* an empty column cache, no row in progress.
C4_FeedClearsAll ==
    [][Feed => (rows' = <<>> /\ cache' = <<>> /\ next_td' = INVALID)]_vars

\* C5: a row whose first cell carries a marker other than the active one is
\* suppressed, and until the next row opens no cell, text or closing marker
\* re-activates it or emits a row.
C5_SuppressedRowNeverEmitted ==
    /\ []((doc.inRow /\ doc.first = "closed") => next_td = INVALID)
    /\ [][(/\ doc.inRow
           /\ doc.first = "closed"
           /\ doc'.no = doc.no
           /\ doc'.opened = doc.opened)
              => (next_td' = INVALID /\ rows' = rows)]_vars

\* A row whose first cell was not active has shown 5 texts and its closing
\* marker, and nothing was emitted.
C5_Witness ==
    /\ doc.opened = 1
    /\ ~doc.inRow
    /\ doc.first = "closed"
    /\ Len(doc.cur) = 5
    /\ rows = <<>>
    /\ perr = "none"

\* The texts of an emitted row, in column order.
RowTexts(r) ==
    IF r.level = IntZero
    THEN <<r.datetime, r.id, r.units, r.loc, r.typ>>
    ELSE <<r.datetime, r.id, r.level, r.units, r.loc, r.typ>>

\* C6: while a document is made only of active rows of 5 or 6 texts, nothing
\* is raised and the rows emitted are its closed rows, in order, each with
\* its own texts.
C6_ActiveRowsAllEmitted ==
    (doc.no >= 1 /\ doc.clean) =>
        /\ perr = "none"
        /\ Len(rows) = Len(doc.done)
        /\ \A k \in 1..Len(rows) : RowTexts(rows[k]) = doc.done[k]

\* C7: after each returned cycle a tracked incident's units hold no
\* duplicate and are the pieces of the units of the rows seen with its id
\* since it was opened; across a cycle in which it stays tracked the units
\* only grow and no Opened event is printed for it.
C7_UnitsAccumulate ==
    /\ [](Completed =>
            \A i \in 1..Len(incidents) :
                /\ NoDup(incidents[i].units)
                /\ SeqToSet(incidents[i].units) = seen[incidents[i].id])
    /\ [][UpdateReturns =>
            \A id \in Keys(incidents) \cap Keys(incidents') :
                /\ IsPrefix(Get(incidents, id).units, Get(incidents', id).units)
                /\ EventsAt(events', "Opened", id) = {}]_vars

\* "A" stayed tracked and got its second unit: no Opened event, one
\* UnitAssigned event.
C7_Witness ==
    /\ Completed
    /\ HasKey(incidents, "A")
    /\ Get(incidents, "A").units = <<<<"E", "1">>, <<"E", "2">>>>
    /\ EventsAt(events, "Opened", "A") = {}
    /\ EventsAt(events, "UnitAssigned", "A") # {}

\* C8: a returned poll that finds the pages unchanged prints no TypeChanged
\* and no UnitAssigned event and leaves the tracked incidents as they were.
C8_SecondCallSilent ==
    [][(quiet /\ UpdateReturns) =>
          /\ \A i \in 1..Len(events') :
                events'[i].type \notin {"TypeChanged", "UnitAssigned"}
          /\ incidents' = incidents]_vars

\* C9: a returned cycle prints exactly one Resolved event for each id that
\* was tracked and is not in the snapshot, and removes it; it prints none
\* for any other id.
C9_ResolvedOncePerAbsentId ==
    [][UpdateReturns =>
         \A id \in Ids :
            IF id \in Keys(incidents)
               /\ id \notin RowIds(GetTwoDayRows(pages'.today, pages'.yesterday))
            THEN /\ Cardinality(EventsAt(events', "Resolved", id)) = 1
                 /\ id \notin Keys(incidents')
            ELSE EventsAt(events', "Resolved", id) = {}]_vars

\* Both tracked incidents were resolved by an empty snapshot.
C9_Witness ==
    /\ Completed
    /\ incidents = <<>>
    /\ Snapshot = <<>>
    /\ Cardinality(EventsAt(events, "Resolved", "A")) = 1
    /\ Cardinality(EventsAt(events, "Resolved", "B")) = 1

\* C10: when an id whose last event was Resolved is in the snapshot of a
\* returned cycle, the cycle asks the geocoder for its address and then
\* prints one Opened event for it, and its incident holds the pieces of the
\* units and the last type of this snapshot's rows with the id, nothing else.
C10_ReappearedIsNew ==
    [][UpdateReturns =>
         \A id \in Ids :
            (/\ life[id] # <<>>
             /\ Last(life[id]) = "Resolved"
             /\ id \in RowIds(GetTwoDayRows(pages'.today, pages'.yesterday)))
            => /\ id \in Keys(incidents')
               /\ Cardinality(EventsAt(events', "Opened", id)) = 1
               /\ \E o \in EventsAt(events', "Opened", id) :
                     /\ o > 1
                     /\ events'[o - 1].type = "Geocode"
                     /\ events'[o - 1].addr = Get(incidents', id).addr
               /\ SeqToSet(Get(incidents', id).units)
                     = PiecesOf(pages'.today, id)
               /\ Get(incidents', id).type = LastTypeOf(pages'.today, id)]_vars

\* "A" was opened, resolved and opened again.
C10_Witness ==
    /\ Completed
    /\ life["A"] = <<"Resolved", "Opened">>
    /\ HasKey(incidents, "A")
    /\ EventsAt(events, "Opened", "A") # {}

\* C11: the list update() gets from _get_two_day_rows is flat: every element
\* is a row, it is today's rows followed by yesterday's, and update() returns
\* when yesterday's page has a row.
C11_SnapshotIsFlat ==
    (pc = "sleep" /\ pages.yesterday # <<>>) =>
        /\ \A i \in 1..Len(Snapshot) : IsRow(Snapshot[i])
        /\ Snapshot = pages.today \o pages.yesterday
        /\ crashed # "AttributeError"

-----------------------------------------------------------------------------
(* get_direction_to on its own: every incident and origin of a small grid   *)

\* Largest coordinate, either sign, of the incidents and origins tried.
MaxCoord == 1

Coords == (0 - MaxCoord)..MaxCoord

\* One incident anywhere on the grid, an origin anywhere on the grid.
InitDirection ==
    /\ origin \in Coords \X Coords
    /\ \E loc \in Coords \X Coords :
          incidents = <<Incident("A", Strptime(TimePM), "Pine St", loc, "Aid")>>
    /\ events = <<>>
    /\ crashed = "none"
    /\ pc = "poll"
    /\ pages = NoPages
    /\ quiet = FALSE
    /\ seen = [id \in Ids |-> {}]
    /\ life = [id \in Ids |-> <<>>]
    /\ ParserInit

\* inc.get_direction_to(self._origin), the answer kept in events.
GetDirection ==
    /\ events = <<>>
    /\ events' = <<[type |-> "Direction", id |-> incidents[1].id,
                    dire |-> get_direction_to(incidents[1], origin)]>>
    /\ UNCHANGED <<incidents, origin, crashed, pc, pages, quiet, seen, life,
                   pvars>>

NextDirection == GetDirection

SpecDirection == InitDirection /\ [][NextDirection]_vars

\* C12: get_direction_to answers by strict comparison of the incident's
\* coordinates with the origin's: north only when the latitude is greater,
\* east only when the longitude is greater, so equal latitude is south and
\* equal longitude is west.
C12_DirectionQuadrant ==
    \A i \in 1..Len(events) :
        events[i].type = "Direction" =>
            LET inc == incidents[1]
                dire == events[i].dire
            IN  /\ dire \in {"southwest", "northwest", "southeast", "northeast"}
                /\ dire = "northeast" <=> (inc.lat > origin[1] /\ inc.lon > origin[2])
                /\ dire = "northwest" <=> (inc.lat > origin[1] /\ inc.lon <= origin[2])
                /\ dire = "southeast" <=> (inc.lat <= origin[1] /\ inc.lon > origin[2])
                /\ dire = "southwest" <=> (inc.lat <= origin[1] /\ inc.lon <= origin[2])

\* Equal latitude and equal longitude answered "southwest".
C12_Witness ==
    /\ events # <<>>
    /\ events[1].type = "Direction"
    /\ incidents[1].lat = origin[1]
    /\ incidents[1].lon = origin[2]
    /\ events[1].dire = "southwest"

\* C13: the closing marker of a row in progress with exactly 5 captured texts
\* emits one row with level 0 and the texts as time, id, units, location,
\* type; with exactly 6 it emits one row with the texts as time, id, level,
\* units, location, type; either way the cache is emptied and the column
\* state returns to INVALID.
C13_FiveOrSixFields ==
    [][(EndTag("tr") /\ next_td # INVALID /\ Len(cache) \in {5, 6}) =>
          /\ rows' = Append(rows,
                IF Len(cache) = 5
                THEN [datetime |-> cache[1], id |-> cache[2], level |-> IntZero,
                      units |-> cache[3], loc |-> cache[4], typ |-> cache[5]]
                ELSE [datetime |-> cache[1], id |-> cache[2], level |-> cache[3],
                      units |-> cache[4], loc |-> cache[5], typ |-> cache[6]])
          /\ cache' = <<>>
          /\ next_td' = INVALID
          /\ perr' = "none"]_vars

\* A row of 5 texts and then a row of 6 texts have been emitted.
C13_Witness ==
    /\ Len(rows) = 2
    /\ rows[1].level = IntZero
    /\ rows[2].level # IntZero
    /\ Len(doc.done) = 2
    /\ Len(doc.done[1]) = 5
    /\ Len(doc.done[2]) = 6
    /\ cache = <<>>
    /\ next_td = INVALID

\* C14: text arriving when the column state is TYPE leaves the state at TYPE,
\* and the closing marker of a row in progress that has shown more than 6
\* texts raises nothing and emits exactly one row.
C14_TrailingTextIgnored ==
    /\ [][(next_td = TYPE /\ doc'.no = doc.no /\ Len(doc'.cur) > Len(doc.cur))
             => next_td' = TYPE]_vars
    /\ [][(EndTag("tr") /\ next_td # INVALID /\ doc.inRow /\ Len(doc.cur) > 6)
             => (perr' = "none" /\ Len(rows') = Len(rows) + 1)]_vars

\* C19: the cache is empty whenever the column state is DATETIME, the state
\* a row-opening marker sets, so an emitted row holds only texts of its own
\* row.
C19_CacheEmptyAtRowStart ==
    next_td = DATETIME => cache = <<>>

\* C15: the empty string is never one of an incident's units and no
\* UnitAssigned event names the empty unit.
C15_NoEmptyUnit ==
    /\ \A i \in 1..Len(incidents) : <<>> \notin SeqToSet(incidents[i].units)
    /\ \A i \in 1..Len(events) :
          events[i].type = "UnitAssigned" => events[i].unit # <<>>

\* C16: in a returned cycle, for every id of the snapshot that was not
\* tracked before, one Opened event is printed before every UnitAssigned and
\* TypeChanged event of that id, and at the end of the cycle its incident
\* holds the unit pieces of its rows and the type of its (last) row.
C16_CreateBeforeUpdate ==
    [][UpdateReturns =>
         \A id \in RowIds(pages'.today) \ Keys(incidents) :
            /\ Cardinality(EventsAt(events', "Opened", id)) = 1
            /\ \A o \in EventsAt(events', "Opened", id) :
                  \A u \in EventsAt(events', "UnitAssigned", id)
                             \cup EventsAt(events', "TypeChanged", id) : o < u
            /\ id \in Keys(incidents')
            /\ PiecesOf(pages'.today, id)
                  \subseteq SeqToSet(Get(incidents', id).units)
            /\ Get(incidents', id).type = LastTypeOf(pages'.today, id)]_vars

\* "A" was opened in this cycle from two rows: it got a unit and its type
\* was changed in the same cycle.
C16_Witness ==
    /\ Completed
    /\ EventsAt(events, "Opened", "A") # {}
    /\ EventsAt(events, "UnitAssigned", "A") # {}
    /\ EventsAt(events, "TypeChanged", "A") # {}
    /\ <<"E", "1">> \in SeqToSet(Get(incidents, "A").units)

\* C17: after a returned cycle there is one incident per tracked id, the
\* cycle printed at most one Opened event per id, and every tracked
\* incident's type is the type of the last snapshot row with its id.
C17_LastTypeWins ==
    Completed =>
        /\ Len(incidents) = Cardinality(Keys(incidents))
        /\ \A id \in Ids : Cardinality(EventsAt(events, "Opened", id)) <= 1
        /\ \A i \in 1..Len(incidents) :
              incidents[i].type = LastTypeOf(Snapshot, incidents[i].id)

\* The snapshot has two rows of "A", of type "Fire" and then "Aid"; "A" was
\* opened in this cycle and is of type "Aid".
C17_Witness ==
    /\ Completed
    /\ Len(Snapshot) = 2
    /\ Snapshot[1].id = "A" /\ Snapshot[1].typ = "Fire"
    /\ Snapshot[2].id = "A" /\ Snapshot[2].typ = "Aid"
    /\ Len(incidents) = 1
    /\ incidents[1].type = "Aid"
    /\ Cardinality(EventsAt(events, "Opened", "A")) = 1

\* The places in evs of the questions put to the geocoder.
GeocodesAt(evs) == {i \in 1..Len(evs) : evs[i].type = "Geocode"}

\* C18: an update() call leaves the id, time, address and coordinates of
\* every incident that stays tracked as they were, whatever its rows carry,
\* and a returned call has asked the geocoder once per id that was not
\* tracked before, never for a tracked id.
C18_IdentityFrame ==
    [][(pc = "poll" /\ pc' = "sleep") =>
          /\ \A id \in Keys(incidents) \cap Keys(incidents') :
                LET old == Get(incidents, id)
                    new == Get(incidents', id)
                IN  /\ new.id = old.id
                    /\ new.time = old.time
                    /\ new.addr = old.addr
                    /\ new.lat = old.lat
                    /\ new.lon = old.lon
          /\ crashed' = "none" =>
                /\ Cardinality(GeocodesAt(events'))
                      = Cardinality(RowIds(pages'.today) \ Keys(incidents))
                /\ \A g \in GeocodesAt(events') :
                      \E i \in 1..Len(pages'.today) :
                         /\ pages'.today[i].id \notin Keys(incidents)
                         /\ pages'.today[i].loc = events'[g].addr]_vars

\* "A" was tracked at "Pine St"; the snapshot's rows of "A" carry another
\* location and a timestamp of another format; nothing was asked or opened.
C18_Witness ==
    /\ Completed
    /\ HasKey(incidents, "A")
    /\ Get(incidents, "A").addr = "Pine St"
    /\ Get(incidents, "A").time = Strptime(TimePM)
    /\ \E i \in 1..Len(Snapshot) :
          Snapshot[i].id = "A" /\ Snapshot[i].loc = "Oak Av"
    /\ \E i \in 1..Len(Snapshot) :
          Snapshot[i].id = "A" /\ Snapshot[i].datetime = TimeIso
    /\ GeocodesAt(events) = {}
    /\ EventsAt(events, "Opened", "A") = {}

\* C20: for every id, the Opened and Resolved events printed so far
\* alternate and begin with Opened, no update() call prints both an Opened
\* and a Resolved event for one id, and the id is tracked exactly when the
\* last of these events is Opened.
C20_OpenedResolvedAlternate ==
    \A id \in Ids :
        /\ Len(life[id]) = 1 => life[id] = <<"Opened">>
        /\ Len(life[id]) = 2 => life[id][1] # life[id][2]
        /\ EventsAt(events, "Opened", id) = {}
              \/ EventsAt(events, "Resolved", id) = {}
        /\ id \in Keys(incidents)
              <=> (life[id] # <<>> /\ Last(life[id]) = "Opened")

\* "A" was opened and resolved, "B" was opened, resolved and opened again.
C20_Witness ==
    /\ life["A"] = <<"Opened", "Resolved">>
    /\ life["B"] = <<"Resolved", "Opened">>
    /\ Keys(incidents) = {"B"}

=============================================================================
